---- MODULE Spec2Model ----
(***************************************************************************)
(* A model of src/server.ts: the sampling pass getSystemMemory, its       *)
(* classification loop and the four detail protocols getChromeTabs,        *)
(* getPythonProcesses, getClaudeSessions and getVSCodeWorkspaces.          *)
(*                                                                         *)
(* Representation.                                                         *)
(*  - A JavaScript string is a sequence of one-character strings; the      *)
(*    em dash is the element "EMDASH" and a line feed the element "NL".    *)
(*  - A line of `ps aux` output is the record                              *)
(*      [pre, pid, rss, args]: `pre` of the ten leading fields are present *)
(*    (field 1 is the pid, field 5 the resident set size in KB) and args   *)
(*    are the fields from index 10 on; args is empty unless pre = 10.      *)
(*  - parseInt of a missing field is NaN: the number NaN below, with the   *)
(*    arithmetic and the comparisons of IEEE NaN written out.              *)
(*  - Sizes are kept in KB where the code divides by a power of two only   *)
(*    at the end; used and free, which the code rounds to one decimal,     *)
(*    are numbers of tenths of a GB.                                       *)
(***************************************************************************)
EXTENDS Integers, Sequences, FiniteSets, TLC

\* ------------------------------------------------------------ numbers

\* parseInt(undefined) and everything computed from it
NaN == 0 - 1

IsNaN(x) == x = NaN

\* Math.round(n / d) for d > 0: the nearest integer, halves towards +infinity
MathRound(n, d) == (2 * n + d) \div (2 * d)

\* a + b on numbers
Plus(a, b) == IF IsNaN(a) \/ IsNaN(b) THEN NaN ELSE a + b

\* a < b and a > b on numbers: false when either is NaN
Less(a, b) == ~IsNaN(a) /\ ~IsNaN(b) /\ a < b

Greater(a, b) == ~IsNaN(a) /\ ~IsNaN(b) /\ a > b

\* Math.round(parseInt(parts[5]) / 1024)
RoundMB(kb) == IF IsNaN(kb) THEN NaN ELSE MathRound(kb, 1024)

Max2(a, b) == IF a > b THEN a ELSE b

\* ------------------------------------------------------------ strings

LowerChar(c) ==
  CASE c = "A" -> "a" [] c = "B" -> "b" [] c = "C" -> "c" [] c = "D" -> "d"
    [] c = "E" -> "e" [] c = "F" -> "f" [] c = "G" -> "g" [] c = "H" -> "h"
    [] c = "I" -> "i" [] c = "J" -> "j" [] c = "K" -> "k" [] c = "L" -> "l"
    [] c = "M" -> "m" [] c = "N" -> "n" [] c = "O" -> "o" [] c = "P" -> "p"
    [] c = "Q" -> "q" [] c = "R" -> "r" [] c = "S" -> "s" [] c = "T" -> "t"
    [] c = "U" -> "u" [] c = "V" -> "v" [] c = "W" -> "w" [] c = "X" -> "x"
    [] c = "Y" -> "y" [] c = "Z" -> "z" [] OTHER -> c

Lower(s) == [i \in 1..Len(s) |-> LowerChar(s[i])]

IsSpace(c) == c \in {" ", "NL", "TAB"}

\* s.substring(from, to) with 0-based from and exclusive to, both clamped
Substring(s, from, to) ==
  LET t == IF to > Len(s) THEN Len(s) ELSE to
  IN  IF from >= t THEN <<>> ELSE SubSeq(s, from + 1, t)

\* does p occur in s at the 1-based position i
MatchAt(s, p, i) ==
  /\ i >= 1
  /\ i + Len(p) - 1 <= Len(s)
  /\ \A k \in 1..Len(p) : s[i + k - 1] = p[k]

\* s.indexOf(p) as a 1-based position, 0 when p does not occur
IndexOf(s, p) ==
  LET hits == {i \in 1..Len(s) + 1 : MatchAt(s, p, i)}
  IN  IF hits = {} THEN 0 ELSE CHOOSE i \in hits : \A j \in hits : i <= j

\* s.includes(p)
Includes(s, p) == \E i \in 1..(Len(s) - Len(p) + 1) : MatchAt(s, p, i)

\* /p/i.test(s) for a literal p
IncludesCI(s, p) == Includes(Lower(s), Lower(p))

\* s.trim()
RECURSIVE TrimLeft(_)
TrimLeft(s) == IF s # <<>> /\ IsSpace(Head(s)) THEN TrimLeft(Tail(s)) ELSE s

RECURSIVE TrimRight(_)
TrimRight(s) ==
  IF s # <<>> /\ IsSpace(s[Len(s)]) THEN TrimRight(SubSeq(s, 1, Len(s) - 1)) ELSE s

Trim(s) == TrimRight(TrimLeft(s))

\* s.split(sep) for a non-empty separator: the pieces, empty ones included
RECURSIVE Split(_, _)
Split(s, sep) ==
  LET i == IndexOf(s, sep)
  IN  IF i = 0 THEN <<s>>
      ELSE <<SubSeq(s, 1, i - 1)>> \o Split(SubSeq(s, i + Len(sep), Len(s)), sep)

\* parts.join(' ')
RECURSIVE JoinSp(_)
JoinSp(parts) ==
  IF parts = <<>> THEN <<>>
  ELSE IF Len(parts) = 1 THEN parts[1]
  ELSE parts[1] \o <<" ">> \o JoinSp(Tail(parts))

\* ------------------------------------------------------------ process-table lines

\* line.trim().split(/\s+/).length
NumFields(line) == line.pre + Len(line.args)

\* parseInt(parts[1])
ParsePid(line) == IF line.pre >= 2 THEN line.pid ELSE NaN

\* parseInt(parts[5])
ParseRss(line) == IF line.pre >= 6 THEN line.rss ELSE NaN

\* parseInt(parts[5] || '0')
ParseRssOrZero(line) == IF line.pre >= 6 THEN line.rss ELSE 0

\* parts.slice(10).join(' ')
Command(line) == IF line.pre >= 10 THEN JoinSp(line.args) ELSE <<>>

\* ------------------------------------------------------------ sorting

\* the comparator (a, b) => b.memory - a.memory, as a sign; NaN counts as 0
Compare(a, b) ==
  IF IsNaN(a.memory) \/ IsNaN(b.memory) THEN 0
  ELSE IF b.memory < a.memory THEN 0 - 1
  ELSE IF b.memory > a.memory THEN 1
  ELSE 0

\* a consistent comparator orders the list: "compares equal" is transitive
Consistent(list) ==
  \A i, j, k \in 1..Len(list) :
    (Compare(list[i], list[j]) = 0 /\ Compare(list[j], list[k]) = 0)
      => Compare(list[i], list[k]) = 0

\* the stable sort, one insertion at a time: x goes before the first entry
\* the comparator puts after it
RECURSIVE InsertSorted(_, _)
InsertSorted(sorted, x) ==
  IF sorted = <<>> THEN <<x>>
  ELSE IF Compare(Head(sorted), x) > 0 THEN <<x>> \o sorted
  ELSE <<Head(sorted)>> \o InsertSorted(Tail(sorted), x)

RECURSIVE StableSort(_, _)
StableSort(sorted, rest) ==
  IF rest = <<>> THEN sorted
  ELSE StableSort(InsertSorted(sorted, Head(rest)), Tail(rest))

\* the list in the order of the ranks `engine` gives its positions
RECURSIVE Ranked(_, _, _)
Ranked(list, engine, r) ==
  IF r > Len(engine) THEN <<>>
  ELSE (IF engine[r] <= Len(list) THEN <<list[engine[r]]>> ELSE <<>>)
         \o Ranked(list, engine, r + 1)

\* array.sort((a, b) => b.memory - a.memory): stable under a consistent
\* comparator; under an inconsistent one the order is the engine's own
Sort(list, engine) ==
  IF Consistent(list) THEN StableSort(<<>>, list) ELSE Ranked(list, engine, 1)

\* ------------------------------------------------------------ classifier

S_googleChrome == <<"G", "o", "o", "g", "l", "e", " ", "C", "h", "r", "o", "m", "e">>
S_chrome == <<"c", "h", "r", "o", "m", "e">>
S_claude == <<"c", "l", "a", "u", "d", "e">>
S_visualStudioCode ==
  <<"V", "i", "s", "u", "a", "l", " ", "S", "t", "u", "d", "i", "o", " ", "C", "o", "d", "e">>
S_codeHelper == <<"C", "o", "d", "e", " ", "H", "e", "l", "p", "e", "r">>
S_slack == <<"S", "l", "a", "c", "k">>
S_python == <<"p", "y", "t", "h", "o", "n">>
S_node == <<"n", "o", "d", "e">>
S_code == <<"c", "o", "d", "e">>
S_nextServer == <<"n", "e", "x", "t", "-", "s", "e", "r", "v", "e", "r">>
S_whatsApp == <<"W", "h", "a", "t", "s", "A", "p", "p">>
S_obsidian == <<"O", "b", "s", "i", "d", "i", "a", "n">>
S_docker == <<"d", "o", "c", "k", "e", "r">>
S_containerd == <<"c", "o", "n", "t", "a", "i", "n", "e", "r", "d">>

\* /node(?!.*[Cc]ode)/i : some "node" with no "code" anywhere after it
NodePattern(command) ==
  LET s == Lower(command)
  IN  \E i \in 1..Len(s) :
        /\ MatchAt(s, S_node, i)
        /\ ~Includes(SubSeq(s, i + Len(S_node), Len(s)), S_code)

appPatterns ==
  << [name |-> "Chrome", color |-> "#4285f4"],
     [name |-> "Claude Code", color |-> "#cc785c"],
     [name |-> "VS Code", color |-> "#007acc"],
     [name |-> "Slack", color |-> "#4a154b"],
     [name |-> "Python", color |-> "#3776ab"],
     [name |-> "Node.js", color |-> "#339933"],
     [name |-> "Next.js", color |-> "#000000"],
     [name |-> "WhatsApp", color |-> "#25d366"],
     [name |-> "Obsidian", color |-> "#7c3aed"],
     [name |-> "Docker", color |-> "#2496ed"] >>

\* app.pattern.test(command) for the rule called name
PatternTest(name, command) ==
  CASE name = "Chrome" ->
         IncludesCI(command, S_googleChrome) \/ IncludesCI(command, S_chrome)
    [] name = "Claude Code" -> IncludesCI(command, S_claude)
    [] name = "VS Code" ->
         IncludesCI(command, S_visualStudioCode) \/ IncludesCI(command, S_codeHelper)
    [] name = "Slack" -> IncludesCI(command, S_slack)
    [] name = "Python" -> IncludesCI(command, S_python)
    [] name = "Node.js" -> NodePattern(command)
    [] name = "Next.js" -> IncludesCI(command, S_nextServer)
    [] name = "WhatsApp" -> IncludesCI(command, S_whatsApp)
    [] name = "Obsidian" -> IncludesCI(command, S_obsidian)
    [] name = "Docker" ->
         IncludesCI(command, S_docker) \/ IncludesCI(command, S_containerd)

\* appMemory is the Map as the sequence of its entries in insertion order
MapHas(map, name) == \E i \in 1..Len(map) : map[i].name = name

\* current = appMemory.get(name) || {0, 0, color}; current.memory += rss;
\* current.processes += 1; appMemory.set(name, current)
MapAdd(map, app, rss) ==
  IF MapHas(map, app.name)
  THEN [i \in 1..Len(map) |->
          IF map[i].name = app.name
          THEN [map[i] EXCEPT !.memory = Plus(@, rss), !.processes = @ + 1]
          ELSE map[i]]
  ELSE Append(map, [name |-> app.name, memory |-> Plus(0, rss), processes |-> 1,
                    color |-> app.color])

\* the inner loop over appPatterns from rule k on, without the break:
\* every matching rule counts the process
RECURSIVE ClassifyNoBreak(_, _, _, _)
ClassifyNoBreak(map, rss, command, k) ==
  IF k > Len(appPatterns) THEN map
  ELSE IF PatternTest(appPatterns[k].name, command)
       THEN ClassifyNoBreak(MapAdd(map, appPatterns[k], rss), rss, command, k + 1)
       ELSE ClassifyNoBreak(map, rss, command, k + 1)

\* the inner loop over appPatterns from rule k on: the first rule whose
\* pattern matches counts the process, and the loop breaks
RECURSIVE Classify(_, _, _, _)
Classify(map, rss, command, k) ==
  IF k > Len(appPatterns) THEN map
  ELSE IF PatternTest(appPatterns[k].name, command)
       THEN MapAdd(map, appPatterns[k], rss)
       ELSE Classify(map, rss, command, k + 1)

\* the loop over the lines: a line of fewer than 11 fields is skipped;
\* rss = parseInt(parts[5]) / 1024 is kept in KB
RECURSIVE ClassifyLines(_, _)
ClassifyLines(map, lines) ==
  IF lines = <<>> THEN map
  ELSE LET line == Head(lines)
       IN  ClassifyLines(
             IF NumFields(line) < 11 THEN map
             ELSE Classify(map, ParseRss(line), Command(line), 1),
             Tail(lines))

\* Array.from(appMemory.entries()).map(... Math.round(data.memory) ...)
RoundedApps(map) ==
  [i \in 1..Len(map) |->
     [name |-> map[i].name, memory |-> RoundMB(map[i].memory),
      processes |-> map[i].processes, color |-> map[i].color]]

\* ------------------------------------------------------------ getPythonProcesses

S_dotPy == <<".", "p", "y">>
S_voiceMode == <<"v", "o", "i", "c", "e", "-", "m", "o", "d", "e">>
S_ingest == <<"i", "n", "g", "e", "s", "t">>
S_uvRun == <<"u", "v", " ", "r", "u", "n">>
S_ellipsis == <<".", ".", ".">>
S_voiceModeMCP ==
  <<"v", "o", "i", "c", "e", "-", "m", "o", "d", "e", " ", "(", "M", "C", "P", ")">>
S_supabaseIngestor ==
  <<"S", "u", "p", "a", "b", "a", "s", "e", " ", "I", "n", "g", "e", "s", "t", "o", "r">>
S_uvScript == <<"u", "v", " ", "s", "c", "r", "i", "p", "t">>

\* the class [^\s\/]
IsNameChar(c) == ~IsSpace(c) /\ c # "/"

\* where a match of [^\s\/]+\.py that starts at s can end: the positions e of
\* a ".py" with only class characters from s to e - 1
PyEnds(command, s) ==
  {e \in (s + 1)..Len(command) :
     /\ \A k \in s..(e - 1) : IsNameChar(command[k])
     /\ MatchAt(command, S_dotPy, e)}

\* command.match(/([^\s\/]+\.py)/): group 1 of the leftmost match, the
\* longest from its start; the empty string stands for no match
PyMatch(command) ==
  LET starts == {s \in 1..Len(command) : PyEnds(command, s) # {}}
  IN  IF starts = {} THEN <<>>
      ELSE LET s == CHOOSE x \in starts : \A y \in starts : x <= y
               e == CHOOSE x \in PyEnds(command, s) : \A y \in PyEnds(command, s) : x >= y
           IN  SubSeq(command, s, e + Len(S_dotPy) - 1)

\* the label chain of one line: <<script>>, or <<>> where the loop continues
PythonScript(command, memory) ==
  IF PyMatch(command) # <<>> THEN <<PyMatch(command)>>
  ELSE IF Includes(command, S_voiceMode) THEN <<S_voiceModeMCP>>
  ELSE IF Includes(command, S_ingest) THEN <<S_supabaseIngestor>>
  ELSE IF Includes(command, S_uvRun) THEN <<S_uvScript>>
  ELSE IF Greater(memory, 100) THEN <<Substring(command, 0, 40) \o S_ellipsis>>
  ELSE <<>>

\* the loop body without the test memory > 10
PythonLineNoFloor(line) ==
  LET pid == ParsePid(line)
      memory == RoundMB(ParseRss(line))
      script == PythonScript(Command(line), memory)
  IN  IF script = <<>> THEN <<>>
      ELSE <<[script |-> script[1], memory |-> memory, pid |-> pid]>>

\* one pass of the loop body: what the line pushes on processes
PythonLine(line) ==
  LET pid == ParsePid(line)
      memory == RoundMB(ParseRss(line))
      script == PythonScript(Command(line), memory)
  IN  IF script = <<>> THEN <<>>
      ELSE IF Greater(memory, 10)
           THEN <<[script |-> script[1], memory |-> memory, pid |-> pid]>>
           ELSE <<>>

RECURSIVE PythonLoop(_)
PythonLoop(lines) ==
  IF lines = <<>> THEN <<>> ELSE PythonLine(Head(lines)) \o PythonLoop(Tail(lines))

\* ------------------------------------------------------------ getClaudeSessions

S_users == <<"U", "s", "e", "r", "s">>
S_maxghenis == <<"m", "a", "x", "g", "h", "e", "n", "i", "s">>
S_home == <<"H", "o", "m", "e">>
S_slash == <<"/">>

KeepSegment(p) == p # <<>> /\ p # S_users /\ p # S_maxghenis

\* workingDir.split('/').filter(...).slice(-1)[0] || 'Home'
ProjectName(workingDir) ==
  LET kept == SelectSeq(Split(workingDir, S_slash), KeepSegment)
  IN  IF kept = <<>> THEN S_home ELSE kept[Len(kept)]

\* memory < 500 && command.includes('claude')
IsSubagent(memory, command) == Less(memory, 500) /\ Includes(command, S_claude)

\* the loop without its floor: no line is skipped
NoFloor(line) == FALSE

\* if (memory < 50) continue
BelowFloor(line) == Less(RoundMB(ParseRss(line)), 50)

\* the loop up to its next await: the lines left once the leading lines
\* below the floor are skipped
RECURSIVE SkipTiny(_)
SkipTiny(lines) ==
  IF lines # <<>> /\ BelowFloor(Head(lines)) THEN SkipTiny(Tail(lines)) ELSE lines

\* the session pushed for a line whose lookup gave workingDir
Session(line, workingDir) ==
  [workingDir |-> workingDir,
   projectName |-> ProjectName(workingDir),
   memory |-> RoundMB(ParseRss(line)),
   pid |-> ParsePid(line),
   isSubagent |-> IsSubagent(RoundMB(ParseRss(line)), Command(line))]

\* ------------------------------------------------------------ getVSCodeWorkspaces

S_vsCodeTotal == <<"V", "S", " ", "C", "o", "d", "e", " ", "(", "t", "o", "t", "a", "l", ")">>
S_emDashSpace == <<"EMDASH", " ">>
S_commaSpace == <<",", " ">>

\* the same loop forgetting to round each line
RECURSIVE TotalMemoryUnrounded(_)
TotalMemoryUnrounded(lines) ==
  IF lines = <<>> THEN 0
  ELSE Plus(ParseRss(Head(lines)), TotalMemoryUnrounded(Tail(lines)))

\* the loop over the lines: totalMemory += memory
RECURSIVE TotalMemory(_)
TotalMemory(lines) ==
  IF lines = <<>> THEN 0
  ELSE Plus(RoundMB(ParseRss(Head(lines))), TotalMemory(Tail(lines)))

\* totalProcesses += 1 for every line
TotalProcesses(lines) == Len(lines)

NonEmpty(w) == Len(w) > 0

\* windowsOutput.trim().split(', ').filter(w => w.length > 0)
Windows(windowsOutput) == SelectSeq(Split(Trim(windowsOutput), S_commaSpace), NonEmpty)

\* the run of characters other than "[" from position i on
RECURSIVE RunNotBracket(_, _)
RunNotBracket(s, i) ==
  IF i > Len(s) \/ s[i] = "[" THEN <<>> ELSE <<s[i]>> \o RunNotBracket(s, i + 1)

\* window.match(/— ([^\[]+)/): group 1 at the leftmost em dash and space that
\* a character other than "[" follows; <<>> stands for no match
PathMatch(window) ==
  LET hits == {i \in 1..Len(window) :
                 /\ MatchAt(window, S_emDashSpace, i)
                 /\ RunNotBracket(window, i + Len(S_emDashSpace)) # <<>>}
  IN  IF hits = {} THEN <<>>
      ELSE <<RunNotBracket(window,
               (CHOOSE i \in hits : \A j \in hits : i <= j) + Len(S_emDashSpace))>>

\* pathMatch ? pathMatch[1].trim() : window
WindowPath(window) ==
  IF PathMatch(window) = <<>> THEN window ELSE Trim(PathMatch(window)[1])

\* Math.round(total / Math.max(windows.length, 1))
PerWindow(total, n) == IF IsNaN(total) THEN NaN ELSE MathRound(total, Max2(n, 1))

\* workspaces.set(path, data) on the Map kept as its entries in insertion order
WorkspaceSet(map, path, data) ==
  IF \E i \in 1..Len(map) : map[i].path = path
  THEN [i \in 1..Len(map) |->
          IF map[i].path = path
          THEN [path |-> path, memory |-> data.memory, processes |-> data.processes]
          ELSE map[i]]
  ELSE Append(map, [path |-> path, memory |-> data.memory, processes |-> data.processes])

\* the loop over the windows
RECURSIVE WindowLoop(_, _, _)
WindowLoop(map, windows, data) ==
  IF windows = <<>> THEN map
  ELSE WindowLoop(WorkspaceSet(map, WindowPath(Head(windows)), data), Tail(windows), data)

\* the Map after the inner try, window enumeration having succeeded
WorkspacesFromWindows(totalMemory, totalProcesses, windowsOutput) ==
  LET windows == Windows(windowsOutput)
  IN  WindowLoop(<<>>, windows,
        [memory |-> PerWindow(totalMemory, Len(windows)),
         processes |-> PerWindow(totalProcesses, Len(windows))])

\* the Map after the inner catch: the fallback entry
WorkspacesFallback(totalMemory, totalProcesses) ==
  <<[path |-> S_vsCodeTotal, memory |-> totalMemory, processes |-> totalProcesses]>>

\* ------------------------------------------------------------ getChromeTabs

S_bars == <<"|", "|", "|">>
S_unknown == <<"U", "n", "k", "n", "o", "w", "n">>
S_newline == <<"NL">>

\* processes.map(line => Math.round(parseInt(parts[5] || '0') / 1024))
RendererMemory(lines) == [i \in 1..Len(lines) |-> RoundMB(ParseRssOrZero(lines[i]))]

HasBars(l) == Includes(l, S_bars)

\* tabsOutput.trim().split('\n').filter(l => l.includes('|||'))
TabLines(tabsOutput) == SelectSeq(Split(Trim(tabsOutput), S_newline), HasBars)

\* Math.round(50 + Math.random() * 100) for Math.random() = r.num / r.den
Estimate(r) == MathRound(50 * r.den + 100 * r.num, r.den)

\* rendererMemory[i] || estimate, i counted from 1: a missing value and a
\* value of 0 both give way to the estimate
EstimatedMemory(rendererMemory, i, estimate) ==
  IF i <= Len(rendererMemory) /\ rendererMemory[i] # 0 /\ ~IsNaN(rendererMemory[i])
  THEN rendererMemory[i]
  ELSE estimate

\* the tab pushed for tabLines[i]
Tab(tabLine, memory) ==
  LET fields == Split(tabLine, S_bars)
      title == Substring(fields[1], 0, 60)
  IN  [title |-> IF title = <<>> THEN S_unknown ELSE title,
       url |-> IF Len(fields) >= 2 THEN fields[2] ELSE <<>>,
       memory |-> memory]

\* the loop over tabLines; draws[i] is what Math.random() gives in pass i
TabLoop(rendererMemory, tabLines, draws) ==
  [i \in 1..Len(tabLines) |->
     Tab(tabLines[i], EstimatedMemory(rendererMemory, i, Estimate(draws[i])))]

\* ------------------------------------------------------------ getSystemMemory

pageSize == 16384

\* KB in one GB: the three divisions by 1024 of a number of bytes, less one
KBperGB == 1024 * 1024

\* parseVmStat(key) in KB: the pages of the key times pageSize, 0 when the
\* key is not in the text; found is <<>> or <<pages>>
parseVmStat(found) == IF found = <<>> THEN 0 ELSE found[1] * (pageSize \div 1024)

\* used without the pages of the compressor
UsedNoCompressor(vmStat) == parseVmStat(vmStat.wired) + parseVmStat(vmStat.active)

\* used = wired + active + compressed, in KB
Used(vmStat) ==
  parseVmStat(vmStat.wired) + parseVmStat(vmStat.active) + parseVmStat(vmStat.compressed)

\* psOutput.trim().split('\n').slice(1)
SliceHeader(psLines) == IF psLines = <<>> THEN <<>> ELSE Tail(psLines)

\* the object getSystemMemory returns; used and free in tenths of a GB
Snapshot(totalKB, usedKB, appList, tabs, scripts, sessions, workspaces, now) ==
  [kind |-> "snapshot",
   total |-> MathRound(totalKB, KBperGB),
   used |-> MathRound(usedKB * 10, KBperGB),
   free |-> MathRound((totalKB - usedKB) * 10, KBperGB),
   apps |-> appList,
   chromeTabs |-> tabs,
   pythonProcesses |-> scripts,
   claudeSessions |-> sessions,
   vscodeWorkspaces |-> workspaces,
   timestamp |-> now]

\* what the fetch handler's caller sees when getSystemMemory throws
ErrorResponse == [kind |-> "error"]

\* ------------------------------------------------------------ state

VARIABLES
  world,      \* what the collaborators answer: fixed, "no system change"
  pc,         \* where getSystemMemory stands: idle, sysctl, vmstat, ps, join
  totalRam,   \* its local totalRam, in KB
  used,       \* its local used, in KB
  appMemory,  \* its local Map appMemory
  apps,       \* its local apps
  chrome,     \* getChromeTabs: pc, rendererMemory, its promise and value
  python,     \* getPythonProcesses: pc, its promise and value
  claude,     \* getClaudeSessions: pc, the lines left, sessions, promise, value
  vscode,     \* getVSCodeWorkspaces: pc, the two totals, promise, value
  lsofCalls,  \* the pids lsof was asked about in this pass, in call order
  passes,     \* the requests for /api/memory taken so far
  responses,  \* the answers of the fetch handler to the last request but one
              \* and to the last, in this order
  clock       \* what new Date() gives next

vars ==
  <<world, pc, totalRam, used, appMemory, apps, chrome, python, claude, vscode,
    lsofCalls, passes, responses, clock>>

main == <<pc, totalRam, used, appMemory, apps, passes, responses, clock>>

\* the handler answers r
Respond(r) == responses' = Append(responses, r)

ChromeIdle == [pc |-> "idle", rendererMemory |-> <<>>, promise |-> "none", value |-> <<>>]
PythonIdle == [pc |-> "idle", promise |-> "none", value |-> <<>>]
ClaudeIdle ==
  [pc |-> "idle", lines |-> <<>>, sessions |-> <<>>, promise |-> "none", value |-> <<>>]
VSCodeIdle ==
  [pc |-> "idle", totalMemory |-> 0, totalProcesses |-> 0, promise |-> "none",
   value |-> <<>>]

\* the catch of each detail protocol: return []
\* a detail function without its catch: the failure leaves through its promise
Rethrow == [promise |-> "rejected", value |-> <<>>]

ChromeCatch == [promise |-> "fulfilled", value |-> <<>>]
PythonCatch == [promise |-> "fulfilled", value |-> <<>>]
ClaudeCatch == [promise |-> "fulfilled", value |-> <<>>]
VSCodeCatch == [promise |-> "fulfilled", value |-> <<>>]

Settled(p) == p.promise \in {"fulfilled", "rejected"}

\* a detail function that returns list
Return(p, list) == [p EXCEPT !.pc = "done", !.promise = "fulfilled", !.value = list]

\* a catch that never settles the promise of its function
CaughtPending(p, catch) == [p EXCEPT !.pc = "done", !.value = catch.value]

\* a detail function that leaves through its catch
Caught(p, catch) == [p EXCEPT !.pc = "done", !.promise = catch.promise, !.value = catch.value]

Locals0 ==
  /\ totalRam = 0
  /\ used = 0
  /\ appMemory = <<>>
  /\ apps = <<>>
  /\ chrome = ChromeIdle
  /\ python = PythonIdle
  /\ claude = ClaudeIdle
  /\ vscode = VSCodeIdle
  /\ lsofCalls = <<>>

\* the locals of a pass die with it
ResetLocals ==
  /\ totalRam' = 0
  /\ used' = 0
  /\ appMemory' = <<>>
  /\ apps' = <<>>
  /\ chrome' = ChromeIdle
  /\ python' = PythonIdle
  /\ claude' = ClaudeIdle
  /\ vscode' = VSCodeIdle
  /\ lsofCalls' = <<>>

\* getSystemMemory throws: the fetch handler has no catch
Throw ==
  /\ pc' = "idle"
  /\ Respond(ErrorResponse)
  /\ ResetLocals
  /\ UNCHANGED <<world, passes, clock>>

\* ------------------------------------------------------------ bounds

\* the polls of /api/memory a behaviour holds
MaxPasses == 2

\* bounds on the raw inputs
MaxPsLines == 2
MaxRenderers == 2
MaxTabs == 2
MaxPythonLines == 2
MaxClaudeLines == 2
MaxVSCodeLines == 2
MaxWindows == 2

\* ------------------------------------------------------------ what the collaborators answer

\* `world` names each raw text by the places of its lines in the tables below

Line(pre, pid, rss, args) == [pre |-> pre, pid |-> pid, rss |-> rss, args |-> args]

W_google == <<"G", "o", "o", "g", "l", "e">>
W_chromeCap == <<"C", "h", "r", "o", "m", "e">>
W_claude == <<"c", "l", "a", "u", "d", "e">>
W_node == <<"n", "o", "d", "e">>
W_codeCap == <<"C", "o", "d", "e">>
W_helper == <<"H", "e", "l", "p", "e", "r">>
W_serverJs == <<"s", "e", "r", "v", "e", "r", ".", "j", "s">>
W_vscode == <<"v", "s", "c", "o", "d", "e">>
W_python3 == <<"p", "y", "t", "h", "o", "n", "3">>
W_aPy == <<"a", ".", "p", "y">>
W_zsh == <<"z", "s", "h">>
W_command == <<"C", "O", "M", "M", "A", "N", "D">>
W_usrBinPython3 ==
  <<"/", "u", "s", "r", "/", "b", "i", "n", "/", "p", "y", "t", "h", "o", "n", "3">>
W_ingestPipelinePy ==
  <<"i", "n", "g", "e", "s", "t", "_", "p", "i", "p", "e", "l", "i", "n", "e", ".", "p", "y">>
W_tinyPy == <<"t", "i", "n", "y", ".", "p", "y">>
W_dashM == <<"-", "m">>
W_ingest == <<"i", "n", "g", "e", "s", "t">>
W_httpServer == <<"h", "t", "t", "p", ".", "s", "e", "r", "v", "e", "r">>
W_uv == <<"u", "v">>
W_run == <<"r", "u", "n">>
W_voiceMode == <<"v", "o", "i", "c", "e", "-", "m", "o", "d", "e">>
W_dashDirectory == <<"-", "-", "d", "i", "r", "e", "c", "t", "o", "r", "y">>
W_srvPath ==
  <<"/", "s", "r", "v", "/", "w", "w", "w", "/", "s", "t", "a", "t", "i", "c", "/", "p", "u", "b", "l", "i", "c">>
W_ingestPyarrow ==
  <<"i", "n", "g", "e", "s", "t", ".", "p", "y", "a", "r", "r", "o", "w">>
W_renderer == <<"(", "R", "e", "n", "d", "e", "r", "e", "r", ")">>
W_projDir ==
  <<"/", "U", "s", "e", "r", "s", "/", "m", "a", "x", "g", "h", "e", "n", "i", "s",
    "/", "p", "r", "o", "j", "NL">>
W_homeDir ==
  <<"/", "U", "s", "e", "r", "s", "/", "m", "a", "x", "g", "h", "e", "n", "i", "s", "NL">>

\* the header line of ps aux: eleven fields, none of them a number
HeaderLine == Line(10, NaN, NaN, <<W_command>>)

\* lines of the full process table
PsLineTable ==
  << Line(10, 1, 204800, <<W_google, W_chromeCap, W_helper>>),
     Line(10, 2, 102400, <<W_node, W_claude>>),
     Line(10, 3, 102400, <<W_codeCap, W_helper>>),
     Line(10, 4, 51712, <<W_node, W_serverJs>>),
     Line(10, 5, 51200, <<W_node, W_vscode>>),
     Line(10, 6, 204800, <<W_python3, W_aPy>>),
     Line(10, 7, 300, <<W_zsh>>),
     Line(8, 8, 102400, <<>>),
     Line(3, 9, 0, <<>>) >>

\* lines of ps aux | grep "[G]oogle Chrome Helper (Renderer)"
RendererLineTable ==
  << Line(10, 11, 204800, <<W_google, W_chromeCap, W_helper, W_renderer>>),
     Line(10, 12, 300, <<W_google, W_chromeCap, W_helper, W_renderer>>),
     Line(10, 13, 102400, <<W_google, W_chromeCap, W_helper, W_renderer>>),
     Line(3, 14, 0, <<>>) >>

\* lines of the tab list: title, "|||", URL
TabLineTable ==
  << <<"A", "|", "|", "|", "u">>,
     <<"|", "|", "|", "w">>,
     <<"C">> >>

\* lines of ps aux | grep -i "[p]ython"
PythonLineTable ==
  << Line(10, 100, 204800, <<W_usrBinPython3, W_ingestPipelinePy>>),
     Line(10, 101, 5120, <<W_usrBinPython3, W_tinyPy>>),
     Line(10, 102, 51200, <<W_python3, W_dashM, W_ingest>>),
     Line(10, 103, 204800, <<W_python3, W_dashM, W_httpServer>>),
     Line(10, 104, 51200, <<W_python3, W_dashM, W_httpServer>>),
     Line(10, 105, 204800, <<W_uv, W_run, W_python3>>),
     Line(8, 106, 204800, <<>>),
     Line(3, 107, 0, <<>>),
     Line(10, 108, 51200, <<W_uv, W_run, W_voiceMode, W_ingest>>),
     Line(10, 109, 204800, <<W_python3, W_dashM, W_httpServer, W_dashDirectory, W_srvPath>>),
     Line(10, 110, 51200, <<W_python3, W_dashM, W_ingestPyarrow>>) >>

\* lines of ps aux | grep "[c]laude"
ClaudeLineTable ==
  << Line(10, 7, 614400, <<W_claude>>),
     Line(10, 8, 20480, <<W_claude>>),
     Line(10, 8, 102400, <<W_claude>>),
     Line(10, 7, 102400, <<W_node, W_codeCap>>),
     Line(8, 8, 204800, <<>>),
     Line(3, 7, 0, <<>>) >>

\* what lsof can print about one pid; place 0 is lsof failing
LsofTable == << W_projDir, <<"NL">>, W_homeDir >>

ClaudePids == {7, 8}

\* lines of ps aux | grep -E "[C]ode Helper|[V]isual Studio Code"
VSCodeLineTable ==
  << Line(10, 21, 102912, <<W_codeCap, W_helper>>),
     Line(10, 22, 51200, <<W_codeCap, W_helper>>),
     Line(8, 24, 204800, <<>>),
     Line(3, 25, 0, <<>>) >>

\* window names
WindowTable ==
  << <<"a", ".", "t", "s", " ", "EMDASH", " ", "p", "r", "o", "j">>,
     <<"b", ".", "t", "s", " ", "EMDASH", " ", "p", "r", "o", "j">>,
     <<"W", "e", "l", "c", "o", "m", "e">>,
     <<"c", " ", "EMDASH", " ", "[", "x", "]">> >>

\* the entries of table at the places ids
Deref(table, ids) == [i \in 1..Len(ids) |-> table[ids[i]]]

\* lines joined by line feeds, as a command prints them
RECURSIVE Unlines(_)
Unlines(lines) ==
  IF lines = <<>> THEN <<>> ELSE Head(lines) \o <<"NL">> \o Unlines(Tail(lines))

\* the window names as AppleScript prints a list
RECURSIVE CommaList(_)
CommaList(names) ==
  IF names = <<>> THEN <<"NL">>
  ELSE IF Len(names) = 1 THEN names[1] \o <<"NL">>
  ELSE names[1] \o <<",", " ">> \o CommaList(Tail(names))

\* the answers of the collaborators in this world
Sysctl == world.sysctl
VmStat == world.vmStat
PsAux == [ok |-> world.ps.ok, lines |-> <<HeaderLine>> \o Deref(PsLineTable, world.ps.ids)]
ChromePs == [ok |-> world.chromePs.ok, lines |-> Deref(RendererLineTable, world.chromePs.ids)]
ChromeOsa ==
  [ok |-> world.chromeOsa.ok, text |-> Unlines(Deref(TabLineTable, world.chromeOsa.ids))]
PythonPs == [ok |-> world.pythonPs.ok, lines |-> Deref(PythonLineTable, world.pythonPs.ids)]
ClaudePs == [ok |-> world.claudePs.ok, lines |-> Deref(ClaudeLineTable, world.claudePs.ids)]
VSCodePs == [ok |-> world.vscodePs.ok, lines |-> Deref(VSCodeLineTable, world.vscodePs.ids)]
VSCodeOsa ==
  [ok |-> world.vscodeOsa.ok, text |-> CommaList(Deref(WindowTable, world.vscodeOsa.ids))]
Engine == world.engine

\* what lsof answers about pid
Lsof(pid) ==
  IF IsNaN(pid) \/ pid \notin DOMAIN world.lsof \/ world.lsof[pid] = 0
  THEN [ok |-> FALSE, text |-> <<>>]
  ELSE [ok |-> TRUE, text |-> LsofTable[world.lsof[pid]]]

\* ------------------------------------------------------------ the top-level pass

\* the fetch handler takes a request for /api/memory and calls
\* getSystemMemory, which issues sysctl
Request ==
  /\ pc = "idle"
  /\ passes < MaxPasses
  /\ passes' = passes + 1
  /\ responses' = IF Len(responses) < 2 THEN responses ELSE Tail(responses)
  /\ pc' = "sysctl"
  /\ UNCHANGED <<world, totalRam, used, appMemory, apps, chrome, python, claude,
                 vscode, lsofCalls, clock>>

SysctlReturns ==
  /\ pc = "sysctl"
  /\ Sysctl.ok
  /\ totalRam' = Sysctl.memsizeKB
  /\ pc' = "vmstat"
  /\ UNCHANGED <<world, used, appMemory, apps, chrome, python, claude, vscode,
                 lsofCalls, passes, responses, clock>>

SysctlFails ==
  /\ pc = "sysctl"
  /\ ~Sysctl.ok
  /\ Throw

VmStatReturns ==
  /\ pc = "vmstat"
  /\ VmStat.ok
  /\ used' = Used(VmStat)
  /\ pc' = "ps"
  /\ UNCHANGED <<world, totalRam, appMemory, apps, chrome, python, claude, vscode,
                 lsofCalls, passes, responses, clock>>

VmStatFails ==
  /\ pc = "vmstat"
  /\ ~VmStat.ok
  /\ Throw

\* ps aux returns: the classification loop, apps, and the four detail
\* functions called in turn, each running up to its first await
PsReturns ==
  /\ pc = "ps"
  /\ PsAux.ok
  /\ appMemory' = ClassifyLines(<<>>, SliceHeader(PsAux.lines))
  /\ apps' = Sort(RoundedApps(appMemory'), Engine)
  /\ chrome' = [ChromeIdle EXCEPT !.pc = "ps", !.promise = "pending"]
  /\ python' = [PythonIdle EXCEPT !.pc = "ps", !.promise = "pending"]
  /\ claude' = [ClaudeIdle EXCEPT !.pc = "ps", !.promise = "pending"]
  /\ vscode' = [VSCodeIdle EXCEPT !.pc = "ps", !.promise = "pending"]
  /\ pc' = "join"
  /\ UNCHANGED <<world, totalRam, used, lsofCalls, passes, responses, clock>>

PsFails ==
  /\ pc = "ps"
  /\ ~PsAux.ok
  /\ Throw

\* ------------------------------------------------------------ getChromeTabs steps

\* what Math.random() can give, as fractions in [0, 1)
RandomDraws == {[num |-> 0, den |-> 1], [num |-> 999, den |-> 1000]}

ChromePsReturns ==
  /\ chrome.pc = "ps"
  /\ ChromePs.ok
  /\ chrome' = [chrome EXCEPT !.pc = "osa",
                              !.rendererMemory = RendererMemory(ChromePs.lines)]
  /\ UNCHANGED <<world, main, python, claude, vscode, lsofCalls>>

ChromePsFails ==
  /\ chrome.pc = "ps"
  /\ ~ChromePs.ok
  /\ chrome' = Caught(chrome, ChromeCatch)
  /\ UNCHANGED <<world, main, python, claude, vscode, lsofCalls>>

ChromeOsaReturns ==
  /\ chrome.pc = "osa"
  /\ ChromeOsa.ok
  /\ LET tabLines == TabLines(ChromeOsa.text)
     IN  \E draws \in [1..Len(tabLines) -> RandomDraws] :
           chrome' = Return(chrome,
                       Sort(TabLoop(chrome.rendererMemory, tabLines, draws), Engine))
  /\ UNCHANGED <<world, main, python, claude, vscode, lsofCalls>>

ChromeOsaFails ==
  /\ chrome.pc = "osa"
  /\ ~ChromeOsa.ok
  /\ chrome' = Caught(chrome, ChromeCatch)
  /\ UNCHANGED <<world, main, python, claude, vscode, lsofCalls>>

\* ------------------------------------------------------------ getPythonProcesses steps

PythonPsReturns ==
  /\ python.pc = "ps"
  /\ PythonPs.ok
  /\ python' = Return(python, Sort(PythonLoop(PythonPs.lines), Engine))
  /\ UNCHANGED <<world, main, chrome, claude, vscode, lsofCalls>>

PythonPsFails ==
  /\ python.pc = "ps"
  /\ ~PythonPs.ok
  /\ python' = Caught(python, PythonCatch)
  /\ UNCHANGED <<world, main, chrome, claude, vscode, lsofCalls>>

\* ------------------------------------------------------------ getClaudeSessions steps

\* the loop runs on from `lines` with `sessions` pushed so far: to the lsof of
\* the next line at or above the floor, or to the sort and the return
ClaudeContinue(lines, sessions) ==
  LET rest == SkipTiny(lines)
  IN  IF rest = <<>>
      THEN /\ claude' = Return([claude EXCEPT !.lines = <<>>,
                                              !.sessions = Sort(sessions, Engine)],
                               Sort(sessions, Engine))
           /\ lsofCalls' = lsofCalls
      ELSE /\ claude' = [claude EXCEPT !.pc = "lsof", !.lines = rest,
                                       !.sessions = sessions]
           /\ lsofCalls' = Append(lsofCalls, ParsePid(Head(rest)))

ClaudePsReturns ==
  /\ claude.pc = "ps"
  /\ ClaudePs.ok
  /\ ClaudeContinue(ClaudePs.lines, <<>>)
  /\ UNCHANGED <<world, main, chrome, python, vscode>>

ClaudePsFails ==
  /\ claude.pc = "ps"
  /\ ~ClaudePs.ok
  /\ claude' = Caught(claude, ClaudeCatch)
  /\ UNCHANGED <<world, main, chrome, python, vscode, lsofCalls>>

\* the inner catch {}: workingDir keeps its initial ''
LsofCatch == <<>>

ClaudeLsofReturns ==
  /\ claude.pc = "lsof"
  /\ Lsof(ParsePid(Head(claude.lines))).ok
  /\ ClaudeContinue(Tail(claude.lines),
       Append(claude.sessions,
              Session(Head(claude.lines), Trim(Lsof(ParsePid(Head(claude.lines))).text))))
  /\ UNCHANGED <<world, main, chrome, python, vscode>>

\* the lookup without its own try: a failure leaves through the outer catch
ClaudeLsofAborts ==
  /\ claude.pc = "lsof"
  /\ ~Lsof(ParsePid(Head(claude.lines))).ok
  /\ claude' = Caught([claude EXCEPT !.lines = <<>>, !.sessions = <<>>], ClaudeCatch)
  /\ UNCHANGED <<world, main, chrome, python, vscode, lsofCalls>>

ClaudeLsofFails ==
  /\ claude.pc = "lsof"
  /\ ~Lsof(ParsePid(Head(claude.lines))).ok
  /\ ClaudeContinue(Tail(claude.lines),
       Append(claude.sessions, Session(Head(claude.lines), LsofCatch)))
  /\ UNCHANGED <<world, main, chrome, python, vscode>>

\* ------------------------------------------------------------ getVSCodeWorkspaces steps

VSCodePsReturns ==
  /\ vscode.pc = "ps"
  /\ VSCodePs.ok
  /\ vscode' = [vscode EXCEPT !.pc = "osa",
                              !.totalMemory = TotalMemory(VSCodePs.lines),
                              !.totalProcesses = TotalProcesses(VSCodePs.lines)]
  /\ UNCHANGED <<world, main, chrome, python, claude, lsofCalls>>

VSCodePsFails ==
  /\ vscode.pc = "ps"
  /\ ~VSCodePs.ok
  /\ vscode' = Caught(vscode, VSCodeCatch)
  /\ UNCHANGED <<world, main, chrome, python, claude, lsofCalls>>

VSCodeOsaReturns ==
  /\ vscode.pc = "osa"
  /\ VSCodeOsa.ok
  /\ vscode' = Return(vscode,
       Sort(WorkspacesFromWindows(vscode.totalMemory, vscode.totalProcesses,
                                  VSCodeOsa.text), Engine))
  /\ UNCHANGED <<world, main, chrome, python, claude, lsofCalls>>

VSCodeOsaFails ==
  /\ vscode.pc = "osa"
  /\ ~VSCodeOsa.ok
  /\ vscode' = Return(vscode,
       Sort(WorkspacesFallback(vscode.totalMemory, vscode.totalProcesses), Engine))
  /\ UNCHANGED <<world, main, chrome, python, claude, lsofCalls>>

\* ------------------------------------------------------------ the join

\* Promise.race in place of Promise.all: the pass goes on at the first to settle
AnySettled == Settled(chrome) \/ Settled(python) \/ Settled(claude) \/ Settled(vscode)

AllSettled == Settled(chrome) /\ Settled(python) /\ Settled(claude) /\ Settled(vscode)

AllFulfilled ==
  /\ chrome.promise = "fulfilled"
  /\ python.promise = "fulfilled"
  /\ claude.promise = "fulfilled"
  /\ vscode.promise = "fulfilled"

\* await Promise.all([...]) resumes; the object is built and the handler
\* answers with it. A rejected promise would make the await throw.
Join ==
  /\ pc = "join"
  /\ AllSettled
  /\ IF AllFulfilled
     THEN /\ Respond(Snapshot(totalRam, used, apps, chrome.value, python.value,
                              claude.value, vscode.value, clock))
          /\ clock' = clock + 1
     ELSE /\ Respond(ErrorResponse)
          /\ clock' = clock
  /\ pc' = "idle"
  /\ ResetLocals
  /\ UNCHANGED <<world, passes>>

Next ==
  \/ Request
  \/ SysctlReturns \/ SysctlFails
  \/ VmStatReturns \/ VmStatFails
  \/ PsReturns \/ PsFails
  \/ ChromePsReturns \/ ChromePsFails \/ ChromeOsaReturns \/ ChromeOsaFails
  \/ PythonPsReturns \/ PythonPsFails
  \/ ClaudePsReturns \/ ClaudePsFails \/ ClaudeLsofReturns \/ ClaudeLsofFails
  \/ VSCodePsReturns \/ VSCodePsFails \/ VSCodeOsaReturns \/ VSCodeOsaFails
  \/ Join

\* ------------------------------------------------------------ the worlds

\* the sequences over S of length at most n
SeqsUpTo(S, n) == UNION {[1..k -> S] : k \in 0..n}

\* the sequences over S of length 1 to n
SeqsFrom1(S, n) == UNION {[1..k -> S] : k \in 1..n}

EngineOrders(n) == {p \in [1..n -> 1..n] : \A i, j \in 1..n : p[i] = p[j] => i = j}

Identity(n) == [i \in 1..n |-> i]

Places(table) == 1..Len(table)

Answers(ids) == [ok |-> TRUE, ids |-> ids]
NoAnswer == [ok |-> FALSE, ids |-> <<>>]

\* sort -k6 -rn: the resident set sizes do not increase down the listing
SortedByRss(lines) ==
  \A i \in 1..(Len(lines) - 1) : ParseRssOrZero(lines[i]) >= ParseRssOrZero(lines[i + 1])

RendererListings ==
  {l \in SeqsUpTo(Places(RendererLineTable), MaxRenderers) :
     SortedByRss(Deref(RendererLineTable, l))}

\* hw.memsize in KB: 8 GB and 32 GB
MemSizes == {8 * KBperGB, 32 * KBperGB}

\* vm_stat: the pages of each key, <<>> for a key the text lacks
VmStats ==
  { [ok |-> TRUE, wired |-> <<262144>>, active |-> <<524288>>, compressed |-> <<131072>>],
    [ok |-> TRUE, wired |-> <<100000>>, active |-> <<>>, compressed |-> <<3277>>],
    [ok |-> TRUE, wired |-> <<>>, active |-> <<>>, compressed |-> <<>>] }

NoVmStat == [ok |-> FALSE, wired |-> <<>>, active |-> <<>>, compressed |-> <<>>]

\* a machine on which everything answers
Nominal ==
  [ sysctl |-> [ok |-> TRUE, memsizeKB |-> 32 * KBperGB],
    vmStat |-> [ok |-> TRUE, wired |-> <<262144>>, active |-> <<524288>>,
                compressed |-> <<131072>>],
    ps |-> Answers(<<1, 2>>),
    chromePs |-> Answers(<<1>>),
    chromeOsa |-> Answers(<<1, 2>>),
    pythonPs |-> Answers(<<1, 2>>),
    claudePs |-> Answers(<<1, 2>>),
    lsof |-> [p \in ClaudePids |-> 1],
    vscodePs |-> Answers(<<1, 2>>),
    vscodeOsa |-> Answers(<<1, 2>>),
    engine |-> Identity(MaxClaudeLines) ]

\* a machine on which the top-level sources answer and no detail listing does
Quiet ==
  [Nominal EXCEPT !.chromePs = NoAnswer, !.pythonPs = NoAnswer, !.claudePs = NoAnswer,
                  !.vscodePs = NoAnswer]

\* the nominal machine with one collaborator failing
FaultWorlds ==
  { [Nominal EXCEPT !.sysctl = [ok |-> FALSE, memsizeKB |-> 0]],
    [Nominal EXCEPT !.vmStat = NoVmStat],
    [Nominal EXCEPT !.ps = NoAnswer],
    [Nominal EXCEPT !.chromePs = NoAnswer],
    [Nominal EXCEPT !.chromeOsa = NoAnswer],
    [Nominal EXCEPT !.pythonPs = NoAnswer],
    [Nominal EXCEPT !.claudePs = NoAnswer],
    [Nominal EXCEPT !.lsof = [p \in ClaudePids |-> 0]],
    [Nominal EXCEPT !.vscodePs = NoAnswer],
    [Nominal EXCEPT !.vscodeOsa = NoAnswer] }

\* every combination of the detail collaborators answering or failing
IsolationWorlds ==
  { [Nominal EXCEPT !.chromePs = c[1], !.chromeOsa = c[2], !.pythonPs = p,
                    !.claudePs = s[1], !.lsof = s[2], !.vscodePs = v[1],
                    !.vscodeOsa = v[2]] :
      c \in { <<Nominal.chromePs, Nominal.chromeOsa>>, <<NoAnswer, Nominal.chromeOsa>>,
              <<Nominal.chromePs, NoAnswer>> },
      p \in { Nominal.pythonPs, NoAnswer },
      s \in { <<Nominal.claudePs, Nominal.lsof>>, <<NoAnswer, Nominal.lsof>>,
              <<Nominal.claudePs, [q \in ClaudePids |-> 0]>> },
      v \in { <<Nominal.vscodePs, Nominal.vscodeOsa>>, <<NoAnswer, Nominal.vscodeOsa>>,
              <<Nominal.vscodePs, NoAnswer>> } }

\* the top-level sources vary
TotalsWorlds ==
  { [Quiet EXCEPT !.sysctl = [ok |-> TRUE, memsizeKB |-> k], !.vmStat = m] :
      k \in MemSizes, m \in VmStats }

\* the process table varies
ClassifyWorlds ==
  { [Quiet EXCEPT !.ps = Answers(l)] : l \in SeqsUpTo(Places(PsLineTable), MaxPsLines) }

\* the renderer listing and the tab list vary
TabsWorlds ==
  { [Quiet EXCEPT !.chromePs = Answers(r), !.chromeOsa = Answers(t)] :
      r \in RendererListings, t \in SeqsUpTo(Places(TabLineTable), MaxTabs) }

\* the interpreter listing varies
PythonWorlds ==
  { [Quiet EXCEPT !.pythonPs = Answers(l)] :
      l \in SeqsFrom1(Places(PythonLineTable), MaxPythonLines) }

\* the helper listing and the window names vary
VSCodeWorlds ==
  { [Quiet EXCEPT !.vscodePs = Answers(l), !.vscodeOsa = o] :
      l \in SeqsFrom1(Places(VSCodeLineTable), MaxVSCodeLines),
      o \in {Answers(w) : w \in SeqsUpTo(Places(WindowTable), MaxWindows)} \cup {NoAnswer} }

\* the engine's order matters where a line lacks its size
Engines(ids) ==
  IF \E i \in 1..Len(ids) : IsNaN(ParseRss(ClaudeLineTable[ids[i]]))
  THEN EngineOrders(MaxClaudeLines)
  ELSE {Identity(MaxClaudeLines)}

\* the agent listing and the lsof answers vary
ClaudeWorlds ==
  UNION { { [Quiet EXCEPT !.claudePs = Answers(l), !.lsof = f, !.engine = e] :
              f \in [ClaudePids -> 0..Len(LsofTable)], e \in Engines(l) } :
          l \in SeqsFrom1(Places(ClaudeLineTable), MaxClaudeLines) }

InitWith(worlds) ==
  /\ world \in worlds
  /\ pc = "idle"
  /\ passes = 0
  /\ responses = <<>>
  /\ clock = 0
  /\ Locals0

Init == InitWith(IsolationWorlds \cup TotalsWorlds \cup FaultWorlds)
Spec == Init /\ [][Next]_vars

InitClassify == InitWith(ClassifyWorlds \cup FaultWorlds)
SpecClassify == InitClassify /\ [][Next]_vars

InitTabs == InitWith(TabsWorlds \cup FaultWorlds)
SpecTabs == InitTabs /\ [][Next]_vars

InitPython == InitWith(PythonWorlds \cup FaultWorlds)
SpecPython == InitPython /\ [][Next]_vars

InitVSCode == InitWith(VSCodeWorlds \cup FaultWorlds)
SpecVSCode == InitVSCode /\ [][Next]_vars

InitClaude == InitWith(ClaudeWorlds \cup FaultWorlds)
SpecClaude == InitClaude /\ [][Next]_vars

\* ------------------------------------------------------------ properties

\* the lines the classification loop runs over
TableLines == SliceHeader(PsAux.lines)

\* the rules whose pattern matches command, by their place in appPatterns
MatchingRules(command) ==
  {k \in 1..Len(appPatterns) : PatternTest(appPatterns[k].name, command)}

\* the place of the first rule that matches the line, 0 when the line has
\* fewer than 11 fields or no rule matches
FirstRule(line) ==
  IF NumFields(line) < 11 \/ MatchingRules(Command(line)) = {} THEN 0
  ELSE CHOOSE k \in MatchingRules(Command(line)) :
         \A j \in MatchingRules(Command(line)) : k <= j

\* the place of the first matching rule of every line of the table
Owners == [i \in 1..Len(TableLines) |-> FirstRule(TableLines[i])]

RECURSIVE SumRss(_, _, _)
SumRss(owners, k, i) ==
  IF i > Len(owners) THEN 0
  ELSE (IF owners[i] = k THEN ParseRss(TableLines[i]) ELSE 0) + SumRss(owners, k, i + 1)

EntriesOf(map, name) == {i \in 1..Len(map) : map[i].name = name}

RECURSIVE SumProcesses(_)
SumProcesses(map) ==
  IF map = <<>> THEN 0 ELSE Head(map).processes + SumProcesses(Tail(map))

\* C1: once the classification loop has run, every line of at least 11 fields
\* is counted in exactly the group of the first rule of appPatterns that
\* matches its command, and in no other: a group holds the lines it owns, their
\* sizes summed, a group that owns none is absent, and the process counts add
\* up to the number of lines that some rule matches.
C1_FirstMatchOwns ==
  pc = "join" =>
    LET owners == Owners
    IN  /\ \A k \in 1..Len(appPatterns) :
             LET owned == {i \in 1..Len(owners) : owners[i] = k}
                 entries == EntriesOf(appMemory, appPatterns[k].name)
             IN  IF owned = {} THEN entries = {}
                 ELSE /\ Cardinality(entries) = 1
                      /\ \A i \in entries :
                           /\ appMemory[i].processes = Cardinality(owned)
                           /\ appMemory[i].memory = SumRss(owners, k, 1)
                           /\ appMemory[i].color = appPatterns[k].color
        /\ SumProcesses(appMemory) = Cardinality({i \in 1..Len(owners) : owners[i] # 0})

\* C1 witness: the loop has run over a table holding a line that two rules
\* match and a line that is counted nowhere
C1_Witness ==
  /\ pc = "join"
  /\ appMemory # <<>>
  /\ \E i \in 1..Len(TableLines) :
       /\ NumFields(TableLines[i]) >= 11
       /\ Cardinality(MatchingRules(Command(TableLines[i]))) >= 2
  /\ \E i \in 1..Len(TableLines) :
       \/ NumFields(TableLines[i]) < 11
       \/ MatchingRules(Command(TableLines[i])) = {}

\* ---- what each detail function returns, from its own collaborators alone

\* the lists getChromeTabs can return, one for each run of Math.random()
PossibleTabs ==
  IF ~ChromePs.ok \/ ~ChromeOsa.ok THEN {<<>>}
  ELSE LET tabLines == TabLines(ChromeOsa.text)
       IN  {Sort(TabLoop(RendererMemory(ChromePs.lines), tabLines, draws), Engine) :
              draws \in [1..Len(tabLines) -> RandomDraws]}

ExpectedScripts ==
  IF ~PythonPs.ok THEN <<>> ELSE Sort(PythonLoop(PythonPs.lines), Engine)

\* the working directory the loop has for a line: the trimmed answer of lsof,
\* '' when lsof fails
LookedUp(line) ==
  IF Lsof(ParsePid(line)).ok THEN Trim(Lsof(ParsePid(line)).text) ELSE <<>>

RECURSIVE SessionsOf(_)
SessionsOf(lines) ==
  IF lines = <<>> THEN <<>>
  ELSE (IF BelowFloor(Head(lines)) THEN <<>>
        ELSE <<Session(Head(lines), LookedUp(Head(lines)))>>) \o SessionsOf(Tail(lines))

ExpectedSessions ==
  IF ~ClaudePs.ok THEN <<>> ELSE Sort(SessionsOf(ClaudePs.lines), Engine)

ExpectedWorkspaces ==
  IF ~VSCodePs.ok THEN <<>>
  ELSE IF VSCodeOsa.ok
       THEN Sort(WorkspacesFromWindows(TotalMemory(VSCodePs.lines),
                                       TotalProcesses(VSCodePs.lines), VSCodeOsa.text),
                 Engine)
       ELSE Sort(WorkspacesFallback(TotalMemory(VSCodePs.lines),
                                    TotalProcesses(VSCodePs.lines)), Engine)

ExpectedApps == Sort(RoundedApps(ClassifyLines(<<>>, TableLines)), Engine)

TopLevelAnswers == Sysctl.ok /\ VmStat.ok /\ PsAux.ok

\* a lookup of getClaudeSessions fails: some line at or above the floor has a
\* pid lsof fails on
SomeLookupFails ==
  /\ ClaudePs.ok
  /\ \E i \in 1..Len(ClaudePs.lines) :
       ~BelowFloor(ClaudePs.lines[i]) /\ ~Lsof(ParsePid(ClaudePs.lines[i])).ok

Snapshots == {i \in 1..Len(responses) : responses[i].kind = "snapshot"}

\* C2 (as amended): a detail function whose process listing fails (for
\* getChromeTabs, also whose tab enumeration fails) returns the empty list; a
\* failed window enumeration gives the one fallback entry and a failed lsof a
\* session with workingDir ''; whatever fails in one detail function, each of
\* the other three returns what its own collaborators alone determine, and the
\* pass answers with a snapshot holding total, used, free and the groups.
C2_IsolatedFailures ==
  /\ chrome.pc = "done" =>
       /\ chrome.promise = "fulfilled"
       /\ chrome.value \in PossibleTabs
       /\ (~ChromePs.ok \/ ~ChromeOsa.ok) => chrome.value = <<>>
  /\ python.pc = "done" =>
       /\ python.promise = "fulfilled"
       /\ python.value = ExpectedScripts
       /\ ~PythonPs.ok => python.value = <<>>
  /\ claude.pc = "done" =>
       /\ claude.promise = "fulfilled"
       /\ claude.value = ExpectedSessions
       /\ ~ClaudePs.ok => claude.value = <<>>
       /\ (ClaudePs.ok /\ SomeLookupFails) =>
            \E i \in 1..Len(claude.value) : claude.value[i].workingDir = <<>>
  /\ vscode.pc = "done" =>
       /\ vscode.promise = "fulfilled"
       /\ vscode.value = ExpectedWorkspaces
       /\ ~VSCodePs.ok => vscode.value = <<>>
       /\ (VSCodePs.ok /\ ~VSCodeOsa.ok) =>
            /\ Len(vscode.value) = 1
            /\ vscode.value[1].path = S_vsCodeTotal
  /\ TopLevelAnswers =>
       \A i \in 1..Len(responses) :
         /\ responses[i].kind = "snapshot"
         /\ responses[i].total = MathRound(Sysctl.memsizeKB, KBperGB)
         /\ responses[i].used = MathRound(Used(VmStat) * 10, KBperGB)
         /\ responses[i].free = MathRound((Sysctl.memsizeKB - Used(VmStat)) * 10, KBperGB)
         /\ responses[i].apps = ExpectedApps
         /\ responses[i].chromeTabs \in PossibleTabs
         /\ responses[i].pythonProcesses = ExpectedScripts
         /\ responses[i].claudeSessions = ExpectedSessions
         /\ responses[i].vscodeWorkspaces = ExpectedWorkspaces

\* C2 witness: a snapshot was answered in a world where the interpreter
\* listing failed and the other three detail functions had something to return
C2_Witness ==
  /\ ~PythonPs.ok
  /\ \E i \in Snapshots :
       /\ responses[i].pythonProcesses = <<>>
       /\ responses[i].chromeTabs # <<>>
       /\ responses[i].claudeSessions # <<>>
       /\ responses[i].vscodeWorkspaces # <<>>
       /\ responses[i].apps # <<>>

\* C2 as first stated: a detail function any of whose external calls fails
\* returns the empty list
C2_AnyFailureEmpties ==
  \A i \in Snapshots :
    /\ (~ChromePs.ok \/ ~ChromeOsa.ok) => responses[i].chromeTabs = <<>>
    /\ ~PythonPs.ok => responses[i].pythonProcesses = <<>>
    /\ (~ClaudePs.ok \/ SomeLookupFails) => responses[i].claudeSessions = <<>>
    /\ (~VSCodePs.ok \/ ~VSCodeOsa.ok) => responses[i].vscodeWorkspaces = <<>>

\* C3: getSystemMemory never raises to its caller: every request is answered
\* with a snapshot, whichever top-level source is unavailable
C3_NeverRaises == \A i \in 1..Len(responses) : responses[i].kind = "snapshot"

\* ---- getChromeTabs: positions and estimates

TabsAnswered == ChromePs.ok /\ ChromeOsa.ok

\* the tabs in the order the browser enumerates them
EnumeratedTabs == TabLines(ChromeOsa.text)

\* the renderer sizes in the order of the listing, in MB
RendererSizes ==
  [i \in 1..Len(ChromePs.lines) |-> MathRound(ParseRssOrZero(ChromePs.lines[i]), 1024)]

\* C4: with T tabs and N < T renderer values, T tabs are returned, the tab
\* enumerated at position i carries the i-th renderer value for i within N and
\* an estimate of 50..150 MB beyond (the returned list is sorted, so `place`
\* says where each enumerated tab went)
C4_PositionalThenEstimate ==
  (chrome.pc = "done" /\ TabsAnswered /\ Len(RendererSizes) < Len(EnumeratedTabs)) =>
    /\ Len(chrome.value) = Len(EnumeratedTabs)
    /\ \E place \in EngineOrders(Len(EnumeratedTabs)) :
         \A i \in 1..Len(EnumeratedTabs) :
           /\ chrome.value[place[i]].title = Tab(EnumeratedTabs[i], 0).title
           /\ chrome.value[place[i]].url = Tab(EnumeratedTabs[i], 0).url
           /\ i <= Len(RendererSizes) => chrome.value[place[i]].memory = RendererSizes[i]
           /\ i > Len(RendererSizes) => chrome.value[place[i]].memory \in 50..150

\* ---- getVSCodeWorkspaces: the fallback entry

\* the sum of Math.round(rss / 1024) over the helper lines from i on
RECURSIVE SumRounded(_, _)
SumRounded(lines, i) ==
  IF i > Len(lines) THEN 0 ELSE MathRound(lines[i].rss, 1024) + SumRounded(lines, i + 1)

RECURSIVE SumRaw(_, _)
SumRaw(lines, i) == IF i > Len(lines) THEN 0 ELSE lines[i].rss + SumRaw(lines, i + 1)

\* a line without a sixth field has no size: its memory is NaN and so is any sum with it
LacksSize(lines) == \E i \in 1..Len(lines) : lines[i].pre < 6

\* C5: the helper listing answered and the window enumeration failed: exactly
\* one entry, its memory the sum of the helpers' rounded sizes (NaN when a
\* helper line has no size), its process count the number of helper lines
C5_FallbackAggregate ==
  (vscode.pc = "done" /\ VSCodePs.ok /\ ~VSCodeOsa.ok) =>
    /\ Len(vscode.value) = 1
    /\ vscode.value[1].path = S_vsCodeTotal
    /\ vscode.value[1].memory =
         (IF LacksSize(VSCodePs.lines) THEN NaN ELSE SumRounded(VSCodePs.lines, 1))
    /\ vscode.value[1].processes = Len(VSCodePs.lines)

\* C5 witness: the fallback entry stands for two helpers whose rounded sizes
\* add up to something else than their sizes rounded together
C5_Witness ==
  /\ vscode.pc = "done" /\ VSCodePs.ok /\ ~VSCodeOsa.ok
  /\ Len(VSCodePs.lines) >= 2
  /\ ~LacksSize(VSCodePs.lines)
  /\ vscode.value[1].memory # MathRound(SumRaw(VSCodePs.lines, 1), 1024)
  /\ vscode.value[1].processes = Len(VSCodePs.lines)

\* ---- two passes over the same raw inputs

WithoutTimestamp(r) == [r EXCEPT !.timestamp = 0]

\* C6: two passes fed the same raw inputs answer snapshots equal in every
\* field but the timestamp
C6_SameInputsSameSnapshot ==
  (Len(responses) = 2 /\ Snapshots = {1, 2}) =>
    WithoutTimestamp(responses[1]) = WithoutTimestamp(responses[2])

\* ---- lines with fewer than 11 fields

HasAllFields(line) == NumFields(line) >= 11

Full(lines) == SelectSeq(lines, HasAllFields)

\* C7: in each of the five paths a line of fewer than 11 fields leaves no
\* trace: what the path produces is what it produces from the other lines
C7_ShortLinesDropped ==
  /\ pc = "join" => appMemory = ClassifyLines(<<>>, Full(TableLines))
  /\ (python.pc = "done" /\ PythonPs.ok) =>
       python.value = Sort(PythonLoop(Full(PythonPs.lines)), Engine)
  /\ (claude.pc = "done" /\ ClaudePs.ok) =>
       claude.value = Sort(SessionsOf(Full(ClaudePs.lines)), Engine)
  /\ (vscode.pc = "done" /\ VSCodePs.ok /\ ~VSCodeOsa.ok) =>
       vscode.value = Sort(WorkspacesFallback(TotalMemory(Full(VSCodePs.lines)),
                                              TotalProcesses(Full(VSCodePs.lines))), Engine)
  /\ (vscode.pc = "done" /\ VSCodePs.ok /\ VSCodeOsa.ok) =>
       vscode.value = Sort(WorkspacesFromWindows(TotalMemory(Full(VSCodePs.lines)),
                                                 TotalProcesses(Full(VSCodePs.lines)),
                                                 VSCodeOsa.text), Engine)
  /\ (chrome.pc = "done" /\ TabsAnswered) =>
       \E draws \in [1..Len(EnumeratedTabs) -> RandomDraws] :
         chrome.value = Sort(TabLoop(RendererMemory(Full(ChromePs.lines)),
                                     EnumeratedTabs, draws), Engine)

\* ---- signs and order

NonNegative(n) == ~IsNaN(n) /\ n >= 0

AllNonNegative(list) == \A i \in 1..Len(list) : NonNegative(list[i].memory)

\* C8: every memory value of every snapshot is a number not below zero
C8_NonNegative ==
  \A i \in Snapshots :
    /\ NonNegative(responses[i].total)
    /\ NonNegative(responses[i].used)
    /\ responses[i].free >= 0
    /\ AllNonNegative(responses[i].apps)
    /\ AllNonNegative(responses[i].chromeTabs)
    /\ AllNonNegative(responses[i].pythonProcesses)
    /\ AllNonNegative(responses[i].claudeSessions)
    /\ AllNonNegative(responses[i].vscodeWorkspaces)

\* each entry's memory is a number not above the one before it
NonIncreasing(list) ==
  \A i \in 1..(Len(list) - 1) :
    /\ ~IsNaN(list[i].memory)
    /\ ~IsNaN(list[i + 1].memory)
    /\ list[i].memory >= list[i + 1].memory

\* list holds the entries of produced, equal sizes in the order produced
KeepsOrder(list, produced) ==
  /\ Len(list) = Len(produced)
  /\ \E place \in EngineOrders(Len(produced)) :
       /\ \A i \in 1..Len(produced) : list[place[i]] = produced[i]
       /\ \A i, j \in 1..Len(produced) :
            (i < j /\ produced[i].memory = produced[j].memory) => place[i] < place[j]

\* C9: each of the five lists of a snapshot is in non-increasing order of
\* memory, entries of equal memory in the order they were produced
C9_SortedStable ==
  \A i \in Snapshots :
    /\ NonIncreasing(responses[i].apps)
    /\ NonIncreasing(responses[i].chromeTabs)
    /\ NonIncreasing(responses[i].pythonProcesses)
    /\ NonIncreasing(responses[i].claudeSessions)
    /\ NonIncreasing(responses[i].vscodeWorkspaces)
    /\ KeepsOrder(responses[i].apps, RoundedApps(ClassifyLines(<<>>, TableLines)))
    /\ PythonPs.ok => KeepsOrder(responses[i].pythonProcesses, PythonLoop(PythonPs.lines))
    /\ ClaudePs.ok => KeepsOrder(responses[i].claudeSessions, SessionsOf(ClaudePs.lines))
    /\ TabsAnswered =>
         \E draws \in [1..Len(EnumeratedTabs) -> RandomDraws] :
           KeepsOrder(responses[i].chromeTabs,
                      TabLoop(RendererMemory(ChromePs.lines), EnumeratedTabs, draws))

\* ---- the four detail functions side by side

Started(p) == p.promise # "none"

Finished(p) == p.pc = "done"

\* how many of the four detail functions a step touches
Touched ==
  Cardinality({k \in 1..4 :
                 \/ k = 1 /\ chrome' # chrome
                 \/ k = 2 /\ python' # python
                 \/ k = 3 /\ (claude' # claude \/ lsofCalls' # lsofCalls)
                 \/ k = 4 /\ vscode' # vscode})

\* C10: within a pass the four detail functions are started together, before
\* the pass waits on any; a step of one leaves the other three and the locals
\* of the pass alone; whatever the interleaving, the list each returns is the
\* one its own collaborators determine; the pass answers only once all four
\* have finished.
C10_ConcurrentIsolated ==
  /\ [](\/ ~(Started(chrome) \/ Started(python) \/ Started(claude) \/ Started(vscode))
        \/ /\ pc = "join"
           /\ Started(chrome) /\ Started(python) /\ Started(claude) /\ Started(vscode))
  /\ []((pc = "join" /\ ~Finished(chrome)) => chrome.value = <<>>)
  /\ [](Finished(chrome) => chrome.value \in PossibleTabs)
  /\ [](Finished(python) => python.value = ExpectedScripts)
  /\ [](Finished(claude) => claude.value = ExpectedSessions)
  /\ [](Finished(vscode) => vscode.value = ExpectedWorkspaces)
  /\ [][(pc = "join" /\ pc' = "join") =>
          /\ Touched = 1
          /\ UNCHANGED <<totalRam, used, appMemory, apps, responses>>]_vars
  /\ [][(pc = "join" /\ pc' # "join") =>
          /\ Finished(chrome) /\ Finished(python) /\ Finished(claude) /\ Finished(vscode)
          /\ responses' = Append(responses,
                            Snapshot(totalRam, used, apps, chrome.value, python.value,
                                     claude.value, vscode.value, clock))]_vars

\* C10 witness: the function started last has returned its list while the
\* one started first still waits for its first answer and a third is in the
\* middle of its lookups
C10_Witness ==
  /\ pc = "join"
  /\ chrome.pc = "ps"
  /\ python.pc = "done" /\ python.value # <<>>
  /\ claude.pc = "lsof" /\ lsofCalls # <<>>
  /\ vscode.pc = "done" /\ vscode.value # <<>>

\* ---- getPythonProcesses: the label and the floor

\* the part of a token after its last "/"
RECURSIVE BaseName(_)
BaseName(token) ==
  IF \E i \in 1..Len(token) : token[i] = "/"
  THEN BaseName(SubSeq(token, (CHOOSE i \in 1..Len(token) : token[i] = "/") + 1, Len(token)))
  ELSE token

\* a token naming a .py file
IsPyToken(token) ==
  /\ Len(BaseName(token)) > Len(S_dotPy)
  /\ SubSeq(token, Len(token) - Len(S_dotPy) + 1, Len(token)) = S_dotPy

\* the first 40 characters of the command
First40(command) == [i \in 1..(IF Len(command) < 40 THEN Len(command) ELSE 40) |-> command[i]]

\* the label the priority chain gives a line of memory MB, <<>> for discarded
ChainLabel(line, memory) ==
  LET command == Command(line)
      pys == {k \in 1..Len(line.args) : line.pre >= 10 /\ IsPyToken(line.args[k])}
  IN  IF pys # {}
      THEN <<BaseName(line.args[CHOOSE k \in pys : \A m \in pys : k <= m])>>
      ELSE IF Includes(command, S_voiceMode) THEN <<S_voiceModeMCP>>
      ELSE IF Includes(command, S_ingest) THEN <<S_supabaseIngestor>>
      ELSE IF Includes(command, S_uvRun) THEN <<S_uvScript>>
      ELSE IF ~IsNaN(memory) /\ memory > 100 THEN <<First40(command) \o S_ellipsis>>
      ELSE <<>>

\* Math.round(rss / 1024) of a line, NaN without a sixth field
LineMB(line) == IF line.pre >= 6 THEN MathRound(line.rss, 1024) ELSE NaN

\* the lines of the interpreter listing that earn a label and pass the floor
KeptLines ==
  {i \in 1..Len(PythonPs.lines) :
     /\ ChainLabel(PythonPs.lines[i], LineMB(PythonPs.lines[i])) # <<>>
     /\ ~IsNaN(LineMB(PythonPs.lines[i]))
     /\ LineMB(PythonPs.lines[i]) > 10}

\* C11: the label of every returned script is the one the priority chain
\* gives its line: the name of the .py file if the command has one, else the
\* label of the first of voice-mode, ingest, uv run in it, else the first 40
\* characters and '...' if memory > 100 MB; a line the chain discards is not
\* returned
C11_LabelChain ==
  (python.pc = "done" /\ PythonPs.ok) =>
    /\ Len(python.value) = Cardinality(KeptLines)
    /\ \A i \in KeptLines :
         \E j \in 1..Len(python.value) :
           /\ python.value[j].pid = PythonPs.lines[i].pid
           /\ python.value[j].script =
                ChainLabel(PythonPs.lines[i], LineMB(PythonPs.lines[i]))[1]
    /\ \A j \in 1..Len(python.value) :
         \E i \in KeptLines :
           /\ python.value[j].pid = PythonPs.lines[i].pid
           /\ python.value[j].script =
                ChainLabel(PythonPs.lines[i], LineMB(PythonPs.lines[i]))[1]

\* the scenario of the two interpreter lines: 200 MB of ingest_pipeline.py
\* and 5 MB of tiny.py
TwoScripts == <<PythonLineTable[1], PythonLineTable[2]>>

\* C12: every returned script has memory above 10 MB, however it came by its
\* label; a line that earned a label at or below 10 MB is not returned; of
\* the 200 MB ingest_pipeline.py and the 5 MB tiny.py only the first is
C12_InclusionFloor ==
  /\ (python.pc = "done" /\ PythonPs.ok) =>
       /\ \A j \in 1..Len(python.value) :
            ~IsNaN(python.value[j].memory) /\ python.value[j].memory > 10
       /\ \A i \in 1..Len(PythonPs.lines) :
            LET line == PythonPs.lines[i]
            IN  (PythonScript(Command(line), LineMB(line)) # <<>>
                   /\ (IsNaN(LineMB(line)) \/ LineMB(line) <= 10))
                  => \A j \in 1..Len(python.value) : python.value[j].pid # line.pid
       /\ PythonPs.lines = TwoScripts =>
            python.value = <<[script |-> W_ingestPipelinePy, memory |-> 200, pid |-> 100]>>
  /\ \A i \in Snapshots :
       \A j \in 1..Len(responses[i].pythonProcesses) :
         responses[i].pythonProcesses[j].memory > 10

\* C12 witness: the two-line scenario has been sampled and answered
C12_Witness ==
  /\ PythonPs.ok /\ PythonPs.lines = TwoScripts
  /\ \E i \in Snapshots :
       /\ Len(responses[i].pythonProcesses) = 1
       /\ responses[i].pythonProcesses[1].pid = 100
       /\ responses[i].pythonProcesses[1].memory = 200

\* ---- getSystemMemory: the totals

\* the pages vm_stat reports for a key, 0 for a key it lacks
Pages(found) == IF found = <<>> THEN 0 ELSE found[1]

\* wired, active and compressor pages of 16384 bytes, in KB
UsedPagesKB == (Pages(VmStat.wired) + Pages(VmStat.active) + Pages(VmStat.compressed)) * 16

\* the scenario: 32 GB of memory, 4 GB wired, 8 GB active, 2 GB compressor
ScenarioTotals ==
  /\ Sysctl.ok /\ Sysctl.memsizeKB = 32 * 1024 * 1024
  /\ VmStat.ok
  /\ VmStat.wired = <<(4 * 1024 * 1024) \div 16>>
  /\ VmStat.active = <<(8 * 1024 * 1024) \div 16>>
  /\ VmStat.compressed = <<(2 * 1024 * 1024) \div 16>>

\* C13: in every snapshot used is the wired, active and compressor pages at
\* 16384 bytes each (a missing key 0) in GB rounded to one decimal, free is
\* total memory minus used rounded to one decimal, total is the memory in GB
\* rounded to an integer; 32 GB with 4, 8 and 2 GB gives 14.0, 18.0 and 32
\* (used and free are in tenths of a GB)
C13_Totals ==
  \A i \in Snapshots :
    /\ responses[i].total = (2 * Sysctl.memsizeKB + 1024 * 1024) \div (2 * 1024 * 1024)
    /\ responses[i].used = (20 * UsedPagesKB + 1024 * 1024) \div (2 * 1024 * 1024)
    /\ responses[i].free =
         (20 * (Sysctl.memsizeKB - UsedPagesKB) + 1024 * 1024) \div (2 * 1024 * 1024)
    /\ ScenarioTotals =>
         /\ responses[i].used = 140
         /\ responses[i].free = 180
         /\ responses[i].total = 32

\* C13 witness: the scenario has been sampled and answered
C13_Witness ==
  /\ ScenarioTotals
  /\ \E i \in Snapshots :
       responses[i].used = 140 /\ responses[i].free = 180 /\ responses[i].total = 32

\* ---- getClaudeSessions: lookups

\* the lines of the agent listing at or above the floor of 50 MB
Qualifying ==
  {i \in 1..Len(ClaudePs.lines) :
     ~IsNaN(LineMB(ClaudePs.lines[i])) /\ LineMB(ClaudePs.lines[i]) >= 50}

\* lsof fails for the pid or prints nothing but white space
NoDirectory(pid) == ~Lsof(pid).ok \/ Trim(Lsof(pid).text) = <<>>

CalledPids == {lsofCalls[k] : k \in 1..Len(lsofCalls)}

\* C14: every process at or above the floor is returned, whatever its lookup
\* and the lookups of the others did: with workingDir '' and projectName
\* 'Home' when its lookup fails or prints nothing, with the directory lsof
\* printed otherwise; and every such process has been looked up
C14_LookupFailureKeepsRecord ==
  (claude.pc = "done" /\ ClaudePs.ok) =>
    /\ claude.promise = "fulfilled"
    /\ Len(claude.value) >= Cardinality(Qualifying)
    /\ \A i \in Qualifying :
         LET line == ClaudePs.lines[i]
         IN  /\ line.pid \in CalledPids
             /\ \E j \in 1..Len(claude.value) :
                  /\ claude.value[j].pid = line.pid
                  /\ claude.value[j].memory = LineMB(line)
                  /\ IF NoDirectory(line.pid)
                     THEN /\ claude.value[j].workingDir = <<>>
                          /\ claude.value[j].projectName = S_home
                     ELSE claude.value[j].workingDir = Trim(Lsof(line.pid).text)

\* C14 witness: the first lookup failed, the second was still made and
\* answered, and both processes are returned
C14_Witness ==
  /\ claude.pc = "done" /\ ClaudePs.ok
  /\ Len(lsofCalls) = 2
  /\ ~Lsof(lsofCalls[1]).ok
  /\ Lsof(lsofCalls[2]).ok /\ ~NoDirectory(lsofCalls[2])
  /\ Cardinality(Qualifying) = 2
  /\ \E j \in 1..Len(claude.value) :
       /\ claude.value[j].pid = lsofCalls[1]
       /\ claude.value[j].workingDir = <<>>
       /\ claude.value[j].projectName = S_home
  /\ \E j \in 1..Len(claude.value) :
       /\ claude.value[j].pid = lsofCalls[2]
       /\ claude.value[j].workingDir # <<>>
       /\ claude.value[j].projectName # S_home

\* how often lsof was asked about pid in this run
RECURSIVE TimesCalled(_, _)
TimesCalled(calls, pid) ==
  IF calls = <<>> THEN 0
  ELSE (IF Head(calls) = pid THEN 1 ELSE 0) + TimesCalled(Tail(calls), pid)

\* the lines of the agent listing below the floor of 50 MB
Tiny ==
  {i \in 1..Len(ClaudePs.lines) :
     ~IsNaN(LineMB(ClaudePs.lines[i])) /\ LineMB(ClaudePs.lines[i]) < 50}

\* C15: in a run of getClaudeSessions lsof is asked once for every line at
\* or above 50 MB and never for a line below (per pid: as often as lines not
\* below the floor carry it); a lookup is only ever pending for a line that
\* passed the floor check; once the run is over there are as many lookups as
\* returned sessions
C15_LookupsMatchSessions ==
  /\ claude.pc = "lsof" =>
       /\ claude.lines # <<>>
       /\ ~(~IsNaN(LineMB(Head(claude.lines))) /\ LineMB(Head(claude.lines)) < 50)
       /\ lsofCalls # <<>>
       /\ lsofCalls[Len(lsofCalls)] = Head(claude.lines).pid
       /\ Len(lsofCalls) = Len(claude.sessions) + 1
  /\ (claude.pc = "done" /\ ClaudePs.ok) =>
       /\ Len(lsofCalls) = Len(claude.value)
       /\ \A pid \in ClaudePids :
            TimesCalled(lsofCalls, pid) =
              Cardinality({i \in 1..Len(ClaudePs.lines) :
                             ClaudePs.lines[i].pid = pid /\ i \notin Tiny})
       /\ \A i \in Tiny :
            (\A k \in 1..Len(ClaudePs.lines) :
               ClaudePs.lines[k].pid = ClaudePs.lines[i].pid => k \in Tiny)
              => TimesCalled(lsofCalls, ClaudePs.lines[i].pid) = 0
       /\ \A i \in Qualifying :
            (\A k \in 1..Len(ClaudePs.lines) :
               ClaudePs.lines[k].pid = ClaudePs.lines[i].pid => k = i)
              => TimesCalled(lsofCalls, ClaudePs.lines[i].pid) = 1

\* C15 witness: of a process of 20 MB and one of 600 MB only the second was
\* looked up, once, and only it is returned
C15_Witness ==
  /\ claude.pc = "done" /\ ClaudePs.ok
  /\ Cardinality(Tiny) = 1 /\ Cardinality(Qualifying) = 1
  /\ \E i \in Tiny, k \in Qualifying :
       /\ ClaudePs.lines[i].pid # ClaudePs.lines[k].pid
       /\ lsofCalls = <<ClaudePs.lines[k].pid>>
  /\ Len(claude.value) = 1

\* ---- termination of a pass

\* a step of a pass under way: a call returning or failing, or the
\* continuation of the pass being run once the four promises have settled
PassStep ==
  \/ SysctlReturns \/ SysctlFails \/ VmStatReturns \/ VmStatFails
  \/ PsReturns \/ PsFails
  \/ ChromePsReturns \/ ChromePsFails \/ ChromeOsaReturns \/ ChromeOsaFails
  \/ PythonPsReturns \/ PythonPsFails
  \/ ClaudePsReturns \/ ClaudePsFails \/ ClaudeLsofReturns \/ ClaudeLsofFails
  \/ VSCodePsReturns \/ VSCodePsFails \/ VSCodeOsaReturns \/ VSCodeOsaFails
  \/ Join

\* a pass under way has a step it can take: the guards of the steps of
\* PassStep (a call outstanding, or the four promises settled), which is
\* ENABLED <<PassStep>>_vars written out
CanStep ==
  \/ pc \in {"sysctl", "vmstat", "ps"}
  \/ /\ pc = "join"
     /\ \/ chrome.pc \in {"ps", "osa"}
        \/ python.pc = "ps"
        \/ claude.pc \in {"ps", "lsof"}
        \/ vscode.pc \in {"ps", "osa"}
        \/ AllSettled

\* every external call returns or fails and the event loop runs what is
\* ready: weak fairness of PassStep, that is, a pass that can take a step
\* does not stand still for ever; when the next request comes is up to the
\* client
CallsAnswer == []<>(~CanStep) \/ []<><<PassStep>>_vars

SpecLive == Init /\ [][Next]_vars /\ CallsAnswer

\* C16: every pass that has begun comes to its end with an answer, a snapshot
\* or an error, whichever calls of the four detail functions fail; a pass
\* waiting on the four is resumed
C16_PassTerminates ==
  /\ (pc # "idle") ~> (pc = "idle" /\ responses # <<>>)
  /\ (pc = "join") ~>
       (Finished(chrome) /\ Finished(python) /\ Finished(claude) /\ Finished(vscode))

\* C16 witness: a pass in which detail functions took their error paths has
\* been answered
C16_Witness ==
  /\ pc = "idle" /\ passes >= 1
  /\ ~PythonPs.ok /\ ~ChromeOsa.ok /\ SomeLookupFails /\ ~VSCodeOsa.ok
  /\ responses # <<>>
  /\ responses[Len(responses)].kind = "snapshot"

\* the window names the enumeration gave in this world
EnumeratedWindows == Windows(VSCodeOsa.text)

\* workspace e is what the claim gives some window: the window's path and the
\* even shares of the two aggregates
ShareOf(e, windows) ==
  /\ \E i \in 1..Len(windows) : e.path = WindowPath(windows[i])
  /\ e.memory = PerWindow(TotalMemory(VSCodePs.lines), Len(windows))
  /\ e.processes = PerWindow(TotalProcesses(VSCodePs.lines), Len(windows))

\* C17: when the editor listing and the window enumeration both succeed, with
\* N >= 1 window names, getVSCodeWorkspaces returns as many workspaces as
\* windows, each window's path (the text after the em dash and space, or the
\* whole name) among them, each with memory round(aggregate memory / N) and
\* processes round(aggregate count / N)
C17_OnePerWindow ==
  (/\ vscode.pc = "done" /\ VSCodePs.ok /\ VSCodeOsa.ok
   /\ Len(EnumeratedWindows) >= 1)
  => /\ Len(vscode.value) = Len(EnumeratedWindows)
     /\ \A i \in 1..Len(vscode.value) : ShareOf(vscode.value[i], EnumeratedWindows)
     /\ \A i \in 1..Len(EnumeratedWindows) :
          \E j \in 1..Len(vscode.value) :
            vscode.value[j].path = WindowPath(EnumeratedWindows[i])

\* the part of C17 apart from the count: every workspace returned is the even
\* share under the path of some window, and every window's path is returned
C17_SharesAndPaths ==
  (/\ vscode.pc = "done" /\ VSCodePs.ok /\ VSCodeOsa.ok
   /\ Len(EnumeratedWindows) >= 1)
  => /\ Len(vscode.value) <= Len(EnumeratedWindows)
     /\ \A i \in 1..Len(vscode.value) : ShareOf(vscode.value[i], EnumeratedWindows)
     /\ \A i \in 1..Len(EnumeratedWindows) :
          \E j \in 1..Len(vscode.value) :
            vscode.value[j].path = WindowPath(EnumeratedWindows[i])

\* two windows on one workspace have been answered by a single entry
C17_TwoWindowsOneEntry ==
  /\ vscode.pc = "done" /\ VSCodePs.ok /\ VSCodeOsa.ok
  /\ Len(EnumeratedWindows) = 2
  /\ Len(vscode.value) = 1

====
